---- MODULE Spec2Model ----
(***************************************************************************)
(* Model of the Quantitative Signal & Risk Engine of trading_ai_bot:       *)
(*   - RiskManager (core/risk_manager.py): portfolio state, the six risk  *)
(*     checks, position sizing, add/close/reset;                           *)
(*   - AnalysisValidatorTool.validate_enhanced_analysis                    *)
(*     (tools/analysis_validator/tool.py): the sanitizer.                  *)
(*                                                                         *)
(* Python floats are modelled as exact rationals [n |-> num, d |-> den]    *)
(* (d > 0, reduced).  Confidence is kept in hundredths (0.85 is 85), the   *)
(* 24h change in percent, the 24h volume in millions of USD.  Python dicts *)
(* are functions whose DOMAIN is the set of keys present.                  *)
(***************************************************************************)
EXTENDS Integers, Sequences, FiniteSets, TLC

(***************************************************************************)
(* Exact rational arithmetic standing for the float arithmetic of the code *)
(***************************************************************************)
IAbs(x) == IF x < 0 THEN -x ELSE x

RECURSIVE GCD(_, _)
GCD(a, b) == IF b = 0 THEN a ELSE GCD(b, a % b)

\* n/d with d > 0, reduced to lowest terms
Rat(n, d) ==
    LET g == GCD(IAbs(n), d)
    IN  [n |-> n \div g, d |-> d \div g]

R(i) == [n |-> i, d |-> 1]

RNeg(a) == [n |-> -a.n, d |-> a.d]

RAdd(a, b) ==
    LET g == GCD(a.d, b.d)
    IN  Rat(a.n * (b.d \div g) + b.n * (a.d \div g), (a.d \div g) * b.d)

RSub(a, b) == RAdd(a, RNeg(b))

RMul(a, b) ==
    LET g1 == GCD(IAbs(a.n), b.d)
        g2 == GCD(IAbs(b.n), a.d)
    IN  IF a.n = 0 \/ b.n = 0 THEN R(0)
        ELSE [n |-> (a.n \div g1) * (b.n \div g2), d |-> (a.d \div g2) * (b.d \div g1)]

\* a / b for b # 0 (the code's guards decide where b = 0 is reached)
RDiv(a, b) ==
    IF b.n > 0 THEN RMul(a, [n |-> b.d, d |-> b.n])
    ELSE RMul(a, [n |-> -b.d, d |-> -b.n])

RAbs(a) == [n |-> IAbs(a.n), d |-> a.d]

RLt(a, b) == a.n * b.d < b.n * a.d
RLe(a, b) == a.n * b.d <= b.n * a.d
RGt(a, b) == RLt(b, a)
RGe(a, b) == RLe(b, a)

RMin(a, b) == IF RLe(a, b) THEN a ELSE b
RMax(a, b) == IF RGe(a, b) THEN a ELSE b

\* F applied to the value of v, with v evaluated once (a local variable of the code)
Let(v, F(_)) == CHOOSE r \in {F(x) : x \in {v}} : TRUE

\* Python dict: d[k] = v
Put(d, k, v) ==
    CHOOSE r \in {[x \in (DOMAIN dd) \cup {k} |-> IF x = k THEN vv ELSE dd[x]] :
                     dd \in {d}, vv \in {v}} : TRUE

\* Python dict: d.get(k, default)
Get(d, k, default) == IF k \in DOMAIN d THEN d[k] ELSE default

\* Python's None, and a value that is a string where a number or a dict is
\* expected
None == [none |-> TRUE]
Text == [str |-> "n/a"]

IsNumber(v) == DOMAIN v = {"n", "d"}
IsMapping(v) == "none" \notin DOMAIN v /\ "str" \notin DOMAIN v

\* An exception leaving the called method
Raised(kind) == [exception |-> kind]
IsRaised(r) == "exception" \in DOMAIN r

(***************************************************************************)
(* Analysis sanitizer: AnalysisValidatorTool                               *)
(***************************************************************************)
\* market_data.get('current_price', 50000)
DefaultCurrentPrice == 50000

required_fields ==
    {"market_sentiment", "confidence_score", "recommended_action",
     "entry_strategy", "risk_management", "reasoning"}

\* the documented neutral defaults; confidence 0.3 is 30 hundredths
get_enhanced_default_value(field, current_price) ==
    CASE field = "market_sentiment" -> "neutral"
      [] field = "confidence_score" -> 30
      [] field = "recommended_action" -> "wait"
      [] field = "entry_strategy" ->
            [entry_price |-> current_price,
             entry_condition |-> "market order",
             position_size_percent |-> 2]
      [] field = "risk_management" ->
            [stop_loss |-> RMul(current_price, Rat(98, 100)),
             take_profit_1 |-> RMul(current_price, Rat(104, 100)),
             take_profit_2 |-> RMul(current_price, Rat(108, 100)),
             risk_reward_ratio |-> R(2),
             max_loss_percent |-> 2]
      [] OTHER -> "Analysis performed with default parameters due to incomplete data"

\* for field in required_fields: if field not in analysis: analysis[field] = default
FillRequired(analysis, current_price) ==
    [f \in (DOMAIN analysis) \cup required_fields |->
        IF f \in DOMAIN analysis THEN analysis[f]
        ELSE get_enhanced_default_value(f, current_price)]

\* if not 0 <= c <= 1: c = max(0, min(1, c))   (hundredths)
ClampConfidence(c) ==
    IF ~(0 <= c /\ c <= 100)
    THEN (IF c > 100 THEN 100 ELSE IF c < 0 THEN 0 ELSE c)
    ELSE c

\* lines 33-40: the entry strategy.  entry_price is the local of the code: it is
\* read once from the dict and keeps that value when the dict entry is
\* overwritten with current_price.
ValidateEntry(entry_strategy, current_price) ==
    Let(IF "entry_price" \notin DOMAIN entry_strategy
        THEN Put(entry_strategy, "entry_price", current_price) ELSE entry_strategy,
        LAMBDA es1 :
            [entry_price |-> es1.entry_price,
             entry_strategy |->
                IF RGt(RAbs(RSub(es1.entry_price, current_price)),
                       RMul(current_price, Rat(5, 100)))
                THEN Put(es1, "entry_price", current_price) ELSE es1])

\* lines 42-54: the stop, at most 3% of current_price away from the local entry_price
ValidateStop(risk_mgmt, entry_price, current_price, action) ==
    Let(IF "stop_loss" \notin DOMAIN risk_mgmt
        THEN Put(risk_mgmt, "stop_loss", RMul(current_price, Rat(98, 100)))
        ELSE risk_mgmt,
        LAMBDA rm1 :
            IF RGt(RAbs(RSub(entry_price, rm1.stop_loss)), RMul(current_price, Rat(3, 100)))
            THEN (IF action = "long"
                  THEN Put(rm1, "stop_loss",
                           RSub(entry_price, RMul(current_price, Rat(3, 100))))
                  ELSE Put(rm1, "stop_loss",
                           RAdd(entry_price, RMul(current_price, Rat(3, 100)))))
            ELSE rm1)

\* lines 60-69: the take-profit targets, given min_tp1 of the branch taken
ValidateTargets(risk_mgmt, min_tp1, action) ==
    IF action = "long"
    THEN IF RLt(Get(risk_mgmt, "take_profit_1", R(0)), min_tp1)
         THEN Put(Put(risk_mgmt, "take_profit_1", min_tp1),
                  "take_profit_2", RMul(min_tp1, Rat(3, 2)))
         ELSE risk_mgmt
    ELSE IF RGt(Get(risk_mgmt, "take_profit_1", R(0)), min_tp1)
         THEN Put(Put(risk_mgmt, "take_profit_1", min_tp1),
                  "take_profit_2", RDiv(min_tp1, Rat(3, 2)))
         ELSE risk_mgmt

\* lines 56-73: minimum 1:2 risk/reward, then the reported ratio
ValidateRiskReward(risk_mgmt, entry_price, action) ==
    Let(RAbs(RSub(entry_price, risk_mgmt.stop_loss)),
        LAMBDA risk :
            Let(ValidateTargets(risk_mgmt,
                                IF action = "long"
                                THEN RAdd(entry_price, RMul(risk, R(2)))
                                ELSE RSub(entry_price, RMul(risk, R(2))),
                                action),
                LAMBDA rm3 :
                    Put(rm3, "risk_reward_ratio",
                        IF RGt(risk, R(0))
                        THEN RDiv(RAbs(RSub(Get(rm3, "take_profit_1", entry_price),
                                            entry_price)), risk)
                        ELSE R(2))))

\* lines 29-80 on an analysis that has every required field
ValidateFilled(a1, current_price, symbol) ==
    Let(ValidateEntry(a1.entry_strategy, current_price),
        LAMBDA e :
            [f \in (DOMAIN a1) \cup {"analyzer", "symbol"} |->
                CASE f = "confidence_score" -> ClampConfidence(a1.confidence_score)
                  [] f = "entry_strategy" -> e.entry_strategy
                  [] f = "risk_management" ->
                        ValidateRiskReward(
                            ValidateStop(a1.risk_management, e.entry_price,
                                         current_price, a1.recommended_action),
                            e.entry_price, a1.recommended_action)
                  [] f = "analyzer" -> "claude_enhanced"
                  [] f = "symbol" -> symbol
                  [] OTHER -> a1[f]])

\* where lines 33-69 raise TypeError: 'in' and item assignment on an
\* entry_strategy or risk_management that is None or a string (35-36, 44-45),
\* arithmetic on an entry_price or stop_loss that is None or a string (39, 50),
\* the comparison of such a take_profit_1 with min_tp1 (62, 67)
RaisesTypeError(a1) ==
    \/ ~IsMapping(a1.entry_strategy)
    \/ ~IsMapping(a1.risk_management)
    \/ ~IsNumber(Get(a1.entry_strategy, "entry_price", R(0)))
    \/ ~IsNumber(Get(a1.risk_management, "stop_loss", R(0)))
    \/ ~IsNumber(Get(a1.risk_management, "take_profit_1", R(0)))

\* validate_enhanced_analysis(analysis, market_data): the dict it returns
\* (the timestamp it stamps is left out), or the exception it raises: the
\* method has no try/except
validate_enhanced_analysis(analysis, market_data) ==
    Let(Get(market_data, "current_price", R(DefaultCurrentPrice)),
        LAMBDA current_price :
            Let(FillRequired(analysis, current_price),
                LAMBDA a1 :
                    IF RaisesTypeError(a1) THEN Raised("TypeError")
                    ELSE ValidateFilled(a1, current_price,
                                        Get(market_data, "symbol", "UNKNOWN"))))

(***************************************************************************)
(* Risk manager: RiskManager                                               *)
(***************************************************************************)
VARIABLES
    config,             \* the dict given to RiskManager(config)
    balance,            \* self.balance
    current_positions,  \* self.current_positions, a list of Position
    daily_pnl,          \* self.daily_pnl
    daily_trades,       \* self.daily_trades
    trade_history,      \* self.trade_history, a list of trade records
    win_rate,           \* self.win_rate
    avg_win,            \* self.avg_win
    avg_loss,           \* self.avg_loss
    last,               \* the last call made on the risk manager and what it returned
    san                 \* the sanitizer run: its input and its results

vars == <<config, balance, current_positions, daily_pnl, daily_trades,
          trade_history, win_rate, avg_win, avg_loss, last, san>>

portfolio == <<config, balance, current_positions, daily_pnl, daily_trades,
               trade_history, win_rate, avg_win, avg_loss>>

\* Defaults of RiskManager.__init__
initial_balance == 10000
max_risk_per_trade == Rat(2, 100)
max_portfolio_risk == Rat(6, 100)
max_daily_loss == Rat(5, 100)
min_risk_reward_ratio == R(2)
max_positions == 3
default_max_daily_trades == 10

\* The reasons of a decision (the code formats them in Russian, with numbers)
ReasonLowConfidence == "low confidence"               \* Низкая уверенность анализа
ReasonLowRiskReward == "low risk/reward"              \* Низкое R/R соотношение
ReasonPositionLimit == "position limit reached"       \* Достигнут лимит позиций
ReasonDailyLoss == "daily loss limit reached"         \* Достигнут дневной лимит убытков
ReasonDailyTrades == "daily trade limit reached"      \* Достигнут лимит сделок в день
ReasonPortfolioRisk == "portfolio risk limit reached" \* Достигнут лимит риска портфеля
ReasonAllPassed == "all checks passed"                \* Все проверки пройдены
ReasonNoRisk == "risk per unit undeterminable"        \* Невозможно определить риск на единицу
ReasonSized == "position sized"                       \* Позиция рассчитана успешно
ReasonTooSmall == "position too small"                \* Размер позиции слишком мал

RECURSIVE SumRisk(_)
SumRisk(ps) == IF ps = <<>> THEN R(0) ELSE RAdd(ps[1].risk_amount, SumRisk(Tail(ps)))

_calculate_portfolio_risk == SumRisk(current_positions)

\* Variants of check 1 with another threshold
LowConfidenceBelow40(analysis) == Get(analysis, "confidence", 0) < 40
LowConfidenceBelow60(analysis) == Get(analysis, "confidence", 0) < 60

\* Check 1: confidence < 0.5 (hundredths)
LowConfidence(analysis) == Get(analysis, "confidence", 0) < 50

\* Check 2: rr_ratio < self.min_risk_reward_ratio
LowRiskReward(analysis) ==
    RLt(Get(analysis, "risk_reward_ratio", R(0)), min_risk_reward_ratio)

\* Variant of check 3 comparing with > instead of >=
PositionLimitExceeded == Len(current_positions) > max_positions

\* Check 3: len(self.current_positions) >= self.max_positions
PositionLimitReached == Len(current_positions) >= max_positions

\* Variant of check 4 with a limit of 20% of the balance
DailyLossAboveFifth ==
    /\ RLt(daily_pnl, R(0))
    /\ RGe(RDiv(RAbs(daily_pnl), R(balance)), Rat(20, 100))

\* Check 4: self.daily_pnl < 0 and abs(self.daily_pnl) / self.balance >= self.max_daily_loss
DailyLossReached ==
    /\ RLt(daily_pnl, R(0))
    /\ RGe(RDiv(RAbs(daily_pnl), R(balance)), max_daily_loss)

\* Check 5: self.daily_trades >= self.max_daily_trades
DailyTradesReached == daily_trades >= config.max_daily_trades

\* Variant of check 6 that compares the risk with the whole balance
PortfolioRiskAboveBalance ==
    RLe(RSub(R(balance), _calculate_portfolio_risk), R(0))

\* Check 6: balance * max_portfolio_risk - current_portfolio_risk <= 0
PortfolioRiskReached ==
    RLe(RSub(RMul(R(balance), max_portfolio_risk), _calculate_portfolio_risk), R(0))

\* Variant of the checks with the daily trade count tested before the daily loss
ChecksTradesBeforeLoss(analysis) ==
    IF LowConfidence(analysis)
    THEN [passed |-> FALSE, reason |-> ReasonLowConfidence]
    ELSE IF LowRiskReward(analysis)
    THEN [passed |-> FALSE, reason |-> ReasonLowRiskReward]
    ELSE IF PositionLimitReached
    THEN [passed |-> FALSE, reason |-> ReasonPositionLimit]
    ELSE IF DailyTradesReached
    THEN [passed |-> FALSE, reason |-> ReasonDailyTrades]
    ELSE IF balance = 0
    THEN Raised("ZeroDivisionError")
    ELSE IF DailyLossReached
    THEN [passed |-> FALSE, reason |-> ReasonDailyLoss]
    ELSE IF PortfolioRiskReached
    THEN [passed |-> FALSE, reason |-> ReasonPortfolioRisk]
    ELSE [passed |-> TRUE, reason |-> ReasonAllPassed]

\* The six ordered checks; check 4 divides by self.balance before it tests anything
_perform_risk_checks(analysis) ==
    IF LowConfidence(analysis)
    THEN [passed |-> FALSE, reason |-> ReasonLowConfidence]
    ELSE IF LowRiskReward(analysis)
    THEN [passed |-> FALSE, reason |-> ReasonLowRiskReward]
    ELSE IF PositionLimitReached
    THEN [passed |-> FALSE, reason |-> ReasonPositionLimit]
    ELSE IF balance = 0
    THEN Raised("ZeroDivisionError")
    ELSE IF DailyLossReached
    THEN [passed |-> FALSE, reason |-> ReasonDailyLoss]
    ELSE IF DailyTradesReached
    THEN [passed |-> FALSE, reason |-> ReasonDailyTrades]
    ELSE IF PortfolioRiskReached
    THEN [passed |-> FALSE, reason |-> ReasonPortfolioRisk]
    ELSE [passed |-> TRUE, reason |-> ReasonAllPassed]

\* confidence in hundredths
_calculate_confidence_multiplier(confidence) ==
    IF confidence < 60 THEN Rat(5, 10)
    ELSE IF confidence < 70 THEN Rat(7, 10)
    ELSE IF confidence < 80 THEN Rat(9, 10)
    ELSE IF confidence < 90 THEN R(1)
    ELSE Rat(12, 10)

\* 24h change in percent
_calculate_volatility_factor(market_data) ==
    LET change_24h == RAbs(Get(market_data, "24h_change_percent", R(0)))
    IN  IF RLt(change_24h, R(1)) THEN Rat(12, 10)
        ELSE IF RLt(change_24h, R(3)) THEN R(1)
        ELSE IF RLt(change_24h, R(5)) THEN Rat(8, 10)
        ELSE Rat(6, 10)

\* '1' in time_horizon, for a string given as the sequence of its characters
Contains(str, ch) == \E i \in DOMAIN str : str[i] = ch

\* the default '2-4 часа' of analysis.get('time_horizon', ...)
DefaultTimeHorizon == <<"2", "-", "4", " ", "h">>

_calculate_time_multiplier(time_horizon) ==
    IF Contains(time_horizon, "1") THEN Rat(8, 10)
    ELSE IF Contains(time_horizon, "2") \/ Contains(time_horizon, "3") THEN R(1)
    ELSE IF Contains(time_horizon, "4") \/ Contains(time_horizon, "6") THEN Rat(11, 10)
    ELSE R(1)

\* 24h volume in millions of USD
_calculate_volume_factor(market_data) ==
    LET volume_24h == Get(market_data, "24h_volume", 0)
    IN  IF volume_24h > 2000 THEN R(1)
        ELSE IF volume_24h > 1000 THEN Rat(9, 10)
        ELSE IF volume_24h > 500 THEN Rat(8, 10)
        ELSE Rat(7, 10)

\* The four multiplicative adjustments.  The closing debug line formats
\* volatility_factor, which is bound only when volatility_adjustment is set.
_adjust_position_size(base_size, confidence, analysis, market_data) ==
    LET s1 == RMul(base_size, _calculate_confidence_multiplier(confidence))
        s2 == IF config.volatility_adjustment
              THEN RMul(s1, _calculate_volatility_factor(market_data)) ELSE s1
        s3 == RMul(s2, _calculate_time_multiplier(
                            Get(analysis, "time_horizon", DefaultTimeHorizon)))
        s4 == RMul(s3, _calculate_volume_factor(market_data))
    IN  IF config.volatility_adjustment THEN s4 ELSE Raised("UnboundLocalError")

\* 2% of the entry price
_get_average_stop_distance(entry_price) == RMul(entry_price, Rat(2, 100))

\* Variant of the caps without the portfolio-risk cap
CappedSizeNoRiskCap(size, max_size, available_risk, entry_price) ==
    RMax(R(0), RMin(size, max_size))

\* lines 276-284: the caps, for a size that is not below the minimum
CappedSize(size, max_size, available_risk, entry_price) ==
    Let(IF RGt(available_risk, R(0))
        THEN RDiv(available_risk,
                  RAbs(RSub(entry_price, _get_average_stop_distance(entry_price))))
        ELSE R(0),
        LAMBDA max_risk_size :
            RMax(R(0), IF RGt(max_risk_size, R(0))
                       THEN RMin(RMin(size, max_size), max_risk_size)
                       ELSE RMin(size, max_size)))

\* $100 minimum, 25% of balance maximum, portfolio-risk headroom
_apply_position_limits(size, entry_price) ==
    IF entry_price.n = 0 THEN Raised("ZeroDivisionError")
    ELSE IF RLt(size, RDiv(R(100), entry_price)) THEN R(0)
    ELSE CappedSize(size,
                    RDiv(RMul(R(balance), Rat(25, 100)), entry_price),
                    RSub(RMul(R(balance), max_portfolio_risk), _calculate_portfolio_risk),
                    entry_price)

RECURSIVE SumPnl(_)
SumPnl(ts) == IF ts = <<>> THEN R(0) ELSE RAdd(ts[1].pnl, SumPnl(Tail(ts)))

\* wins, losses and the three statistics of a trade history
Wins(history) == SelectSeq(history, LAMBDA t : RGt(t.pnl, R(0)))
Losses(history) == SelectSeq(history, LAMBDA t : RLt(t.pnl, R(0)))

\* what _update_trade_statistics leaves in <<win_rate, avg_win, avg_loss>>
_update_trade_statistics ==
    IF trade_history = <<>> THEN <<win_rate, avg_win, avg_loss>>
    ELSE LET wins == Wins(trade_history)
             losses == Losses(trade_history)
         IN  <<Rat(Len(wins), Len(trade_history)),
               IF wins # <<>> THEN RDiv(SumPnl(wins), R(Len(wins))) ELSE R(0),
               IF losses # <<>> THEN RDiv(SumPnl(losses), R(Len(losses))) ELSE R(0)>>

\* The statistics after _calculate_kelly_fraction has run
StatsAfterKelly ==
    IF Len(trade_history) < 10 THEN <<win_rate, avg_win, avg_loss>>
    ELSE _update_trade_statistics

\* Variant of the Kelly fraction without the lower clamp at 0.1
KellyNoLowerClamp ==
    IF Len(trade_history) < 10 THEN Rat(1, 2)
    ELSE LET st == _update_trade_statistics
             wr == st[1]
             aw == st[2]
             al == st[3]
         IN  IF al.n = 0 \/ wr.n = 0 THEN Rat(1, 4)
             ELSE LET b == RDiv(aw, RAbs(al))
                      q == RSub(R(1), wr)
                  IN  RMin(Rat(1, 2), RDiv(RSub(RMul(b, wr), q), b))

\* Kelly fraction f = (b p - q) / b clamped to [0.1, 0.5]
_calculate_kelly_fraction ==
    IF Len(trade_history) < 10 THEN Rat(1, 2)
    ELSE LET st == _update_trade_statistics
             wr == st[1]
             aw == st[2]
             al == st[3]
         IN  IF al.n = 0 \/ wr.n = 0 THEN Rat(1, 4)
             ELSE LET b == RDiv(aw, RAbs(al))
                      q == RSub(R(1), wr)
                  IN  RMax(Rat(1, 10),
                           RMin(Rat(1, 2), RDiv(RSub(RMul(b, wr), q), b)))

Rejected(reason) ==
    [position_size |-> R(0), risk_amount |-> R(0), reason |-> reason, allowed |-> FALSE]

\* lines 108-126: the result dict, given final_size and risk_per_unit
SizedResult(final_size, risk_per_unit, analysis, market_data) ==
    Let(RMul(final_size, risk_per_unit),
        LAMBDA final_risk_amount :
            Let(RMul(RAbs(RSub(Get(analysis, "take_profit", R(0)),
                               Get(analysis, "entry_price", R(0)))), final_size),
                LAMBDA potential_profit :
                    [position_size |-> final_size,
                     risk_amount |-> final_risk_amount,
                     potential_profit |-> potential_profit,
                     risk_reward_ratio |->
                        IF RGt(final_risk_amount, R(0))
                        THEN RDiv(potential_profit, final_risk_amount) ELSE R(0),
                     confidence_adjusted |-> Get(analysis, "confidence", 0),
                     volatility_adjusted |-> _calculate_volatility_factor(market_data),
                     kelly_fraction |-> _calculate_kelly_fraction,
                     allowed |-> RGt(final_size, R(0)),
                     reason |-> IF RGt(final_size, R(0)) THEN ReasonSized
                                ELSE ReasonTooSmall]))

\* Variant of the sizing that scales the base size by the Kelly fraction
SizeWithKelly(risk_per_unit, analysis, market_data) ==
    Let(_adjust_position_size(
            RMul(RDiv(RMul(R(balance), max_risk_per_trade), risk_per_unit),
                 _calculate_kelly_fraction),
            Get(analysis, "confidence", 0), analysis, market_data),
        LAMBDA adjusted_size :
            Let(_apply_position_limits(adjusted_size,
                                       Get(analysis, "entry_price", R(0))),
                LAMBDA final_size :
                    SizedResult(final_size, risk_per_unit, analysis, market_data)))

\* lines 96-126: sizing for a positive risk per unit
SizeWithRisk(risk_per_unit, analysis, market_data) ==
    Let(_adjust_position_size(
            RDiv(RMul(R(balance), max_risk_per_trade), risk_per_unit),
            Get(analysis, "confidence", 0), analysis, market_data),
        LAMBDA adjusted_size :
            IF IsRaised(adjusted_size) THEN adjusted_size
            ELSE
            Let(_apply_position_limits(adjusted_size,
                                       Get(analysis, "entry_price", R(0))),
                LAMBDA final_size :
                    IF IsRaised(final_size) THEN final_size
                    ELSE SizedResult(final_size, risk_per_unit,
                                     analysis, market_data)))

\* Variant of the sizing that tests risk_per_unit < 0 and so divides by a
\* risk per unit of zero
SizePositionNoZeroTest(analysis, market_data) ==
    Let(RAbs(RSub(Get(analysis, "entry_price", R(0)), Get(analysis, "stop_loss", R(0)))),
        LAMBDA risk_per_unit :
            IF RLt(risk_per_unit, R(0)) THEN Rejected(ReasonNoRisk)
            ELSE IF risk_per_unit.n = 0 THEN Raised("ZeroDivisionError")
            ELSE SizeWithRisk(risk_per_unit, analysis, market_data))

\* lines 86-126: sizing once the checks have passed
SizePosition(analysis, market_data) ==
    Let(RAbs(RSub(Get(analysis, "entry_price", R(0)), Get(analysis, "stop_loss", R(0)))),
        LAMBDA risk_per_unit :
            IF RLe(risk_per_unit, R(0)) THEN Rejected(ReasonNoRisk)
            ELSE SizeWithRisk(risk_per_unit, analysis, market_data))

\* What calculate_position_size returns (a dict) or raises
calculate_position_size(analysis, market_data) ==
    Let(_perform_risk_checks(analysis),
        LAMBDA risk_checks :
            IF IsRaised(risk_checks) THEN risk_checks
            ELSE IF ~risk_checks.passed THEN Rejected(risk_checks.reason)
            ELSE SizePosition(analysis, market_data))

\* The keys add_position reads with position_info[...]
PositionKeys ==
    {"symbol", "action", "size", "entry_price", "stop_loss", "take_profit", "confidence"}

\* Position(...) as add_position builds it
NewPosition(position_info) ==
    [symbol |-> position_info.symbol,
     side |-> IF position_info.action = "buy" THEN "long" ELSE "short",
     size |-> position_info.size,
     entry_price |-> position_info.entry_price,
     stop_loss |-> position_info.stop_loss,
     take_profit |-> position_info.take_profit,
     confidence |-> position_info.confidence,
     risk_amount |-> Get(position_info, "risk_amount", R(0)),
     expected_return |-> Get(position_info, "potential_profit", R(0))]

\* Variant of the search that takes the first open position whatever its symbol
FirstIndexAnySymbol(symbol) == IF current_positions # <<>> THEN 1 ELSE 0

\* index of the first open position with this symbol, 0 when there is none
FirstIndex(symbol) ==
    IF \E i \in DOMAIN current_positions : current_positions[i].symbol = symbol
    THEN CHOOSE i \in DOMAIN current_positions :
            /\ current_positions[i].symbol = symbol
            /\ \A j \in 1..(i - 1) : current_positions[j].symbol # symbol
    ELSE 0

RemoveAt(seq, i) == SubSeq(seq, 1, i - 1) \o SubSeq(seq, i + 1, Len(seq))

\* Variant of the trade record whose pnl ignores the side
TradeRecordLongPnl(position, close_price) ==
    [symbol |-> position.symbol,
     side |-> position.side,
     entry_price |-> position.entry_price,
     close_price |-> close_price,
     size |-> position.size,
     pnl |-> RMul(RSub(close_price, position.entry_price), position.size),
     confidence |-> position.confidence]

\* the trade record close_position appends and returns
TradeRecord(position, close_price) ==
    [symbol |-> position.symbol,
     side |-> position.side,
     entry_price |-> position.entry_price,
     close_price |-> close_price,
     size |-> position.size,
     pnl |-> IF position.side = "long"
             THEN RMul(RSub(close_price, position.entry_price), position.size)
             ELSE RMul(RSub(position.entry_price, close_price), position.size),
     confidence |-> position.confidence]

(***************************************************************************)
(* Bounds and inputs                                                       *)
(***************************************************************************)
MaxOpen == 3         \* add_position is explored while fewer positions are open
MaxHistory == 1      \* a position is closed only while fewer trades are closed
SmallDailyTrades == 2   \* a configured max_daily_trades the bounds let the day reach

DefaultConfig ==
    [initial_balance |-> initial_balance,
     max_daily_trades |-> default_max_daily_trades,
     volatility_adjustment |-> TRUE]

\* the configuration explored: the defaults, with a daily trade limit the
\* bounds let the day reach
Configs == {[DefaultConfig EXCEPT !.max_daily_trades = SmallDailyTrades]}

\* the reference market data: 24h change 2%, 24h volume 3e9
RefMarket == [symbol |-> "BTCUSDT", 24h_change_percent |-> R(2), 24h_volume |-> 3000]
Markets == {RefMarket}

\* <<entry_price, stop_loss, take_profit>>: the reference levels, and levels
\* whose stop is at the entry
RefLevels == <<50000, 49000, 52000>>
FlatLevels == <<50000, 50000, 52000>>

\* the analysis dict the caller hands to calculate_position_size
Analysis(c, rr, l) ==
    [confidence |-> c, risk_reward_ratio |-> rr, entry_price |-> R(l[1]),
     stop_loss |-> R(l[2]), take_profit |-> R(l[3])]

\* confidence 0.45, 0.55 and 0.85; risk:reward 1.5 and 2
Analyses ==
    {Analysis(45, Rat(3, 2), RefLevels),
     Analysis(55, R(2), RefLevels),
     Analysis(85, Rat(3, 2), RefLevels),
     Analysis(85, R(2), RefLevels),
     Analysis(85, R(2), FlatLevels)}

\* a position whose risk alone is above balance x max_portfolio_risk
BigRisk ==
    [action |-> "buy", symbol |-> "BTCUSDT", size |-> R(1),
     entry_price |-> R(50000), stop_loss |-> R(49000), take_profit |-> R(52000),
     confidence |-> 85, risk_amount |-> R(1000), potential_profit |-> R(2000)]

\* a short with no risk_amount and no potential_profit key
PlainShort ==
    [action |-> "sell", symbol |-> "ETHUSDT", size |-> Rat(1, 100),
     entry_price |-> R(50000), stop_loss |-> R(51000), take_profit |-> R(48000),
     confidence |-> 70]

\* a position_info with no confidence key
NoConfidence ==
    [action |-> "buy", symbol |-> "ETHUSDT", size |-> R(1),
     entry_price |-> R(50000), stop_loss |-> R(49000), take_profit |-> R(52000)]

PositionInfos == {BigRisk, PlainShort, NoConfidence}

Symbols == {"BTCUSDT", "ETHUSDT"}
ClosePrices == {R(49000), R(52000)}

(***************************************************************************)
(* The operations of RiskManager                                           *)
(***************************************************************************)
SanIdle == [stage |-> "idle"]

InitWith(cfg) ==
    /\ config = cfg
    /\ balance = cfg.initial_balance
    /\ current_positions = <<>>
    /\ daily_pnl = R(0)
    /\ daily_trades = 0
    /\ trade_history = <<>>
    /\ win_rate = R(0)
    /\ avg_win = R(0)
    /\ avg_loss = R(0)
    /\ last = [op |-> "__init__"]

Init ==
    /\ \E cfg \in Configs : InitWith(cfg)
    /\ san = SanIdle

\* calculate_position_size(analysis, market_data); the statistics are rewritten
\* by _calculate_kelly_fraction when the call gets as far as the result dict
CalculateStep(analysis, market_data) ==
    LET ret == calculate_position_size(analysis, market_data)
        st == IF "kelly_fraction" \in DOMAIN ret THEN StatsAfterKelly
              ELSE <<win_rate, avg_win, avg_loss>>
    IN  /\ last' = [op |-> "calculate_position_size", analysis |-> analysis,
                    market_data |-> market_data, ret |-> ret]
        /\ win_rate' = st[1]
        /\ avg_win' = st[2]
        /\ avg_loss' = st[3]
        /\ UNCHANGED <<config, balance, current_positions, daily_pnl, daily_trades,
                       trade_history>>

CalculatePositionSize(analysis, market_data) ==
    CalculateStep(analysis, market_data) /\ UNCHANGED san

\* Variant of add_position that does not count the trade
AddStepNoCount(position_info) ==
    IF PositionKeys \subseteq DOMAIN position_info
    THEN /\ current_positions' = Append(current_positions, NewPosition(position_info))
         /\ last' = [op |-> "add_position", position_info |-> position_info, ret |-> TRUE]
         /\ UNCHANGED <<config, balance, daily_pnl, daily_trades, trade_history,
                        win_rate, avg_win, avg_loss>>
    ELSE /\ last' = [op |-> "add_position", position_info |-> position_info, ret |-> FALSE]
         /\ UNCHANGED <<config, balance, current_positions, daily_pnl, daily_trades,
                        trade_history, win_rate, avg_win, avg_loss>>

\* add_position(position_info): a missing key is a KeyError, caught, False
AddStep(position_info) ==
    IF PositionKeys \subseteq DOMAIN position_info
    THEN /\ current_positions' = Append(current_positions, NewPosition(position_info))
         /\ daily_trades' = daily_trades + 1
         /\ last' = [op |-> "add_position", position_info |-> position_info, ret |-> TRUE]
         /\ UNCHANGED <<config, balance, daily_pnl, trade_history,
                        win_rate, avg_win, avg_loss>>
    ELSE /\ last' = [op |-> "add_position", position_info |-> position_info, ret |-> FALSE]
         /\ UNCHANGED <<config, balance, current_positions, daily_pnl, daily_trades,
                        trade_history, win_rate, avg_win, avg_loss>>

AddPosition(position_info) == AddStep(position_info) /\ UNCHANGED san

\* Variant of close_position that also books the realized pnl (in whole
\* dollars) into the balance
ClosePositionToBalance(symbol, close_price) ==
    LET i == FirstIndex(symbol)
    IN  IF i # 0
        THEN LET trade_record == TradeRecord(current_positions[i], close_price)
             IN  /\ daily_pnl' = RAdd(daily_pnl, trade_record.pnl)
                 /\ balance' = balance + (trade_record.pnl.n \div trade_record.pnl.d)
                 /\ trade_history' = Append(trade_history, trade_record)
                 /\ current_positions' = RemoveAt(current_positions, i)
                 /\ last' = [op |-> "close_position", symbol |-> symbol,
                             close_price |-> close_price, ret |-> trade_record]
                 /\ UNCHANGED <<config, daily_trades, win_rate, avg_win, avg_loss, san>>
        ELSE /\ last' = [op |-> "close_position", symbol |-> symbol,
                         close_price |-> close_price, ret |-> None]
             /\ UNCHANGED <<config, balance, current_positions, daily_pnl, daily_trades,
                            trade_history, win_rate, avg_win, avg_loss, san>>

\* close_position(symbol, close_price)
ClosePosition(symbol, close_price) ==
    LET i == FirstIndex(symbol)
    IN  IF i # 0
        THEN LET trade_record == TradeRecord(current_positions[i], close_price)
             IN  /\ daily_pnl' = RAdd(daily_pnl, trade_record.pnl)
                 /\ trade_history' = Append(trade_history, trade_record)
                 /\ current_positions' = RemoveAt(current_positions, i)
                 /\ last' = [op |-> "close_position", symbol |-> symbol,
                             close_price |-> close_price, ret |-> trade_record]
                 /\ UNCHANGED <<config, balance, daily_trades,
                                win_rate, avg_win, avg_loss, san>>
        ELSE /\ last' = [op |-> "close_position", symbol |-> symbol,
                         close_price |-> close_price, ret |-> None]
             /\ UNCHANGED <<config, balance, current_positions, daily_pnl, daily_trades,
                            trade_history, win_rate, avg_win, avg_loss, san>>

\* reset_daily_stats()
ResetDailyStats ==
    /\ daily_pnl' = R(0)
    /\ daily_trades' = 0
    /\ last' = [op |-> "reset_daily_stats"]
    /\ UNCHANGED <<config, balance, current_positions, trade_history,
                   win_rate, avg_win, avg_loss, san>>

\* get_portfolio_summary(): the dict it returns; it assigns no field
GetPortfolioSummary ==
    /\ last' = [op |-> "get_portfolio_summary",
                ret |-> [balance |-> balance,
                         daily_pnl |-> daily_pnl,
                         daily_trades |-> daily_trades,
                         open_positions |-> Len(current_positions),
                         total_risk |-> _calculate_portfolio_risk,
                         risk_percentage |->
                            IF balance > 0
                            THEN RMul(RDiv(_calculate_portfolio_risk, R(balance)), R(100))
                            ELSE R(0),
                         available_risk |->
                            RMax(R(0), RSub(RMul(R(balance), max_portfolio_risk),
                                            _calculate_portfolio_risk)),
                         win_rate |-> win_rate,
                         avg_win |-> avg_win,
                         avg_loss |-> avg_loss,
                         total_trades |-> Len(trade_history)]]
    /\ UNCHANGED <<config, balance, current_positions, daily_pnl, daily_trades,
                   trade_history, win_rate, avg_win, avg_loss, san>>

Calculate == \E a \in Analyses, m \in Markets : CalculatePositionSize(a, m)

Add == /\ Len(current_positions) < MaxOpen
       /\ \E info \in PositionInfos : AddPosition(info)

Close == \E sym \in Symbols, price \in ClosePrices :
            /\ FirstIndex(sym) = 0 \/ Len(trade_history) < MaxHistory
            /\ ClosePosition(sym, price)

Next ==
    \/ Calculate
    \/ Add
    \/ Close
    \/ ResetDailyStats
    \/ GetPortfolioSummary

Spec == Init /\ [][Next]_vars

(***************************************************************************)
(* The risk manager under other configurations and with an entry price of  *)
(* zero: RiskManager(config) reads initial_balance and volatility_adjustment*)
(* from the dict it is given                                               *)
(***************************************************************************)
ZeroBalanceConfig == [DefaultConfig EXCEPT !.initial_balance = 0]
SmallBalanceConfig == [DefaultConfig EXCEPT !.initial_balance = 300]
NoVolatilityConfig == [DefaultConfig EXCEPT !.volatility_adjustment = FALSE]

OtherConfigs == {ZeroBalanceConfig, SmallBalanceConfig, NoVolatilityConfig}

\* an entry price of 0 with a stop of 49000
ZeroEntryLevels == <<0, 49000, 52000>>

AnyAnalyses == Analyses \cup {Analysis(85, R(2), ZeroEntryLevels)}

InitConfigured ==
    /\ \E cfg \in OtherConfigs \cup {DefaultConfig} : InitWith(cfg)
    /\ san = SanIdle

CalculateAny == \E a \in AnyAnalyses, m \in Markets : CalculatePositionSize(a, m)

NextConfigured ==
    \/ CalculateAny
    \/ Add
    \/ Close
    \/ ResetDailyStats
    \/ GetPortfolioSummary

SpecConfigured == InitConfigured /\ [][NextConfigured]_vars

(***************************************************************************)
(* The risk manager with a trade history long enough for the Kelly         *)
(* statistics: the state after that many add_position / close_position     *)
(* pairs and a reset_daily_stats                                           *)
(***************************************************************************)
MaxKellyHistory == 10   \* a position is closed only while fewer trades are closed

\* BigRisk closed above and below its entry price
WinRecord == TradeRecord(NewPosition(BigRisk), R(52000))
LossRecord == TradeRecord(NewPosition(BigRisk), R(49000))

\* histories one trade short of the bound: k winning trades, then losing ones
KellyHistories ==
    {[i \in 1..(MaxKellyHistory - 1) |-> IF i <= k THEN WinRecord ELSE LossRecord] :
        k \in 0..(MaxKellyHistory - 1)}

InitKelly ==
    /\ config = DefaultConfig
    /\ balance = DefaultConfig.initial_balance
    /\ current_positions = <<>>
    /\ daily_pnl = R(0)
    /\ daily_trades = 0
    /\ trade_history \in KellyHistories
    /\ win_rate = R(0)
    /\ avg_win = R(0)
    /\ avg_loss = R(0)
    /\ last = [op |-> "reset_daily_stats"]
    /\ san = SanIdle

\* one position at a time: add_position is explored while none is open
AddKelly == /\ current_positions = <<>>
            /\ \E info \in PositionInfos : AddPosition(info)

CloseKelly == \E sym \in Symbols, price \in ClosePrices :
                 /\ FirstIndex(sym) = 0 \/ Len(trade_history) < MaxKellyHistory
                 /\ ClosePosition(sym, price)

NextKelly ==
    \/ Calculate
    \/ AddKelly
    \/ CloseKelly
    \/ ResetDailyStats
    \/ GetPortfolioSummary

SpecKelly == InitKelly /\ [][NextKelly]_vars

(***************************************************************************)
(* The decision cycle of TradingAgent.start: market data, analysis by the  *)
(* provider ClaudeMarketAnalyzer.analyze_market selects, trading decision, *)
(* execution.  san holds the position in the cycle and what it carries.    *)
(***************************************************************************)
\* MockAnalyzerTool.create_enhanced_mock_analysis(market_data, None): the agent
\* passes no technical analysis, so the branch on the 24h change is taken
\* (the descriptive blocks technical_summary, timeframe_analysis, key_levels
\* are left out)
create_enhanced_mock_analysis(market_data) ==
    LET current_price == Get(market_data, "current_price", R(DefaultCurrentPrice))
        change_24h == Get(market_data, "24h_change_percent", R(0))
        action == IF RGt(change_24h, R(3)) THEN "long"
                  ELSE IF RLt(change_24h, R(-3)) THEN "short" ELSE "wait"
        confidence == IF action = "wait" THEN 40 ELSE 60
        stop_loss == IF action = "long" THEN RMul(current_price, Rat(98, 100))
                     ELSE IF action = "short" THEN RMul(current_price, Rat(102, 100))
                     ELSE RMul(current_price, Rat(985, 1000))
        take_profit_1 == IF action = "long" THEN RMul(current_price, Rat(104, 100))
                         ELSE IF action = "short" THEN RMul(current_price, Rat(96, 100))
                         ELSE RMul(current_price, Rat(103, 100))
        take_profit_2 == IF action = "long" THEN RMul(current_price, Rat(106, 100))
                         ELSE IF action = "short" THEN RMul(current_price, Rat(94, 100))
                         ELSE RMul(current_price, Rat(105, 100))
        risk == RAbs(RSub(current_price, stop_loss))
        reward == RAbs(RSub(take_profit_1, current_price))
    IN  [market_sentiment |-> IF action = "long" THEN "bullish"
                              ELSE IF action = "short" THEN "bearish" ELSE "neutral",
         confidence_score |-> confidence,
         recommended_action |-> action,
         entry_strategy |->
            [entry_price |-> current_price,
             entry_condition |-> "market order at current price",
             position_size_percent |-> IF confidence > 60 THEN 3 ELSE 2],
         risk_management |->
            [stop_loss |-> stop_loss,
             take_profit_1 |-> take_profit_1,
             take_profit_2 |-> take_profit_2,
             risk_reward_ratio |-> IF RGt(risk, R(0)) THEN RDiv(reward, risk) ELSE R(2),
             max_loss_percent |-> 2],
         reasoning |-> "Enhanced mock analysis",
         analyzer |-> "enhanced_mock",
         symbol |-> Get(market_data, "symbol", "UNKNOWN")]

\* MockAnalyzerTool.create_fallback_analysis(market_data)
create_fallback_analysis(market_data) ==
    LET current_price == Get(market_data, "current_price", R(DefaultCurrentPrice))
    IN  [market_sentiment |-> "neutral",
         confidence_score |-> 20,
         recommended_action |-> "wait",
         entry_strategy |->
            [entry_price |-> current_price,
             entry_condition |-> "wait for clearer signals",
             position_size_percent |-> 1],
         risk_management |->
            [stop_loss |-> RMul(current_price, Rat(98, 100)),
             take_profit_1 |-> RMul(current_price, Rat(102, 100)),
             take_profit_2 |-> RMul(current_price, Rat(104, 100)),
             risk_reward_ratio |-> R(2),
             max_loss_percent |-> 2],
         reasoning |-> "Fallback analysis due to data errors or API issues",
         analyzer |-> "fallback",
         symbol |-> Get(market_data, "symbol", "UNKNOWN")]

Provided(provider, analysis, sanitized) ==
    [provider |-> provider, analysis |-> analysis, sanitized |-> sanitized]

\* ClaudeMarketAnalyzer.analyze_market(market_data): the recommendation it
\* returns, who produced it, and whether validate_enhanced_analysis produced
\* it.  mode is how the analyzer was constructed (debug_mode, no API key, or
\* a client); response is what the AI service answered.
analyze_market(mode, market_data, response) ==
    IF "error" \in DOMAIN market_data
    THEN Provided("fallback", create_fallback_analysis(market_data), FALSE)
    ELSE IF mode \in {"debug_mode", "no_api_key"}
    THEN Provided("enhanced_mock", create_enhanced_mock_analysis(market_data), FALSE)
    ELSE IF ~response.parsed
    THEN Provided("fallback", create_fallback_analysis(market_data), FALSE)
    ELSE Let(validate_enhanced_analysis(response.analysis, market_data),
             LAMBDA validated :
                IF IsRaised(validated)
                THEN Provided("fallback", create_fallback_analysis(market_data), FALSE)
                ELSE Provided("ai", validated, TRUE))

\* TradingAgent._adapt_analysis_for_risk_manager(analysis)
_adapt_analysis_for_risk_manager(analysis) ==
    LET entry_strategy == Get(analysis, "entry_strategy", <<>>)
        risk_management == Get(analysis, "risk_management", <<>>)
        sentiment == Get(analysis, "market_sentiment", "neutral")
    IN  [trend |-> IF sentiment = "bullish" THEN "bullish"
                   ELSE IF sentiment = "bearish" THEN "bearish" ELSE "sideways",
         confidence |-> Get(analysis, "confidence_score", 0),
         entry_price |-> Get(entry_strategy, "entry_price", R(50000)),
         stop_loss |-> Get(risk_management, "stop_loss", R(49000)),
         take_profit |-> Get(risk_management, "take_profit_1", R(51000)),
         risk_reward_ratio |-> Get(risk_management, "risk_reward_ratio", R(2)),
         reasoning |-> Get(analysis, "reasoning", "No reasoning provided")]

\* the decision dict make_trading_decision builds from an allowed position_calc
Decision(analysis, market_data, position_calc) ==
    LET entry_strategy == Get(analysis, "entry_strategy", <<>>)
        risk_management == Get(analysis, "risk_management", <<>>)
        current_price == Get(market_data, "current_price", R(DefaultCurrentPrice))
    IN  [action |-> IF analysis.recommended_action = "long" THEN "buy" ELSE "sell",
         symbol |-> Get(market_data, "symbol", "BTCUSDT"),
         size |-> position_calc.position_size,
         entry_price |-> Get(entry_strategy, "entry_price", current_price),
         stop_loss |-> Get(risk_management, "stop_loss",
                           RMul(current_price, Rat(985, 1000))),
         take_profit |-> Get(risk_management, "take_profit_1",
                             RMul(current_price, Rat(103, 100))),
         confidence |-> Get(analysis, "confidence_score", 0),
         risk_amount |-> position_calc.risk_amount,
         potential_profit |-> position_calc.potential_profit,
         risk_reward_ratio |-> position_calc.risk_reward_ratio,
         kelly_fraction |-> Get(position_calc, "kelly_fraction", R(0)),
         volatility_adjusted |-> Get(position_calc, "volatility_adjusted", R(1)),
         analyzer_type |-> Get(analysis, "analyzer", "unknown")]

\* how ClaudeMarketAnalyzer was constructed
AnalyzerModes == {"debug_mode", "no_api_key", "client"}

\* market data of MarketDataTool at 50000 with this 24h change, and the
\* stand-in get_market_data returns when the provider fails
CycleMarket(change) ==
    [symbol |-> "BTCUSDT", current_price |-> R(50000),
     24h_change_percent |-> R(change), 24h_volume |-> 3000]
ErrorMarket ==
    [symbol |-> "BTCUSDT", current_price |-> R(50000), error |-> "Fallback data"]
CycleMarkets == {CycleMarket(2), CycleMarket(4), CycleMarket(-4), ErrorMarket}

\* what the AI service answers: text that is not JSON, or a recommendation
AiAnalysis(action, entry_price) ==
    [market_sentiment |-> "bullish",
     confidence_score |-> 80,
     recommended_action |-> action,
     entry_strategy |-> [entry_price |-> entry_price],
     risk_management |-> [stop_loss |-> R(49000), take_profit_1 |-> R(52000)],
     reasoning |-> "AI analysis"]
AiResponses ==
    {[parsed |-> FALSE]} \cup
    {[parsed |-> TRUE, analysis |-> AiAnalysis(act, e)] :
        act \in {"long", "short", "wait"}, e \in {R(50000), None}}

InitCycle ==
    /\ InitWith(DefaultConfig)
    /\ \E mode \in AnalyzerModes : san = [stage |-> "idle", mode |-> mode]

\* market_data = await self.get_market_data()
GetMarketData ==
    /\ san.stage = "idle"
    /\ \E m \in CycleMarkets :
          san' = [stage |-> "fetched", mode |-> san.mode, market_data |-> m]
    /\ UNCHANGED <<portfolio, last>>

\* analysis = await self.analyze_market(market_data)
AnalyzeMarket ==
    /\ san.stage = "fetched"
    /\ \E response \in AiResponses :
          LET got == analyze_market(san.mode, san.market_data, response)
          IN  san' = [stage |-> "analyzed", mode |-> san.mode,
                      market_data |-> san.market_data, provider |-> got.provider,
                      analysis |-> got.analysis, sanitized |-> got.sanitized]
    /\ UNCHANGED <<portfolio, last>>

\* the cycle record after make_trading_decision
Decided(called, decision) ==
    [stage |-> "decided", mode |-> san.mode, market_data |-> san.market_data,
     provider |-> san.provider, analysis |-> san.analysis,
     sanitized |-> san.sanitized, called |-> called, decision |-> decision]

\* decision = await self.make_trading_decision(analysis, market_data); an
\* exception of calculate_position_size ends the cycle in the loop's except
MakeTradingDecision ==
    /\ san.stage = "analyzed"
    /\ IF \/ Get(san.analysis, "confidence_score", 0) < 50
          \/ Get(san.analysis, "recommended_action", "wait") = "wait"
       THEN /\ san' = Decided(FALSE, None)
            /\ UNCHANGED <<portfolio, last>>
       ELSE LET risk_analysis == _adapt_analysis_for_risk_manager(san.analysis)
                position_calc == calculate_position_size(risk_analysis, san.market_data)
            IN  /\ CalculateStep(risk_analysis, san.market_data)
                /\ san' = Decided(TRUE,
                                   IF IsRaised(position_calc) THEN None
                                   ELSE IF ~position_calc.allowed THEN None
                                   ELSE Decision(san.analysis, san.market_data,
                                                 position_calc))

\* if decision: await self.execute_trade(decision), which calls add_position
\* (and get_portfolio_summary, which assigns nothing)
ExecuteTrade ==
    /\ san.stage = "decided"
    /\ san.decision # None
    /\ AddStep(san.decision)
    /\ san' = [stage |-> "idle", mode |-> san.mode]

\* no decision: the loop sleeps and starts the next cycle
Sleep ==
    /\ san.stage = "decided"
    /\ san.decision = None
    /\ san' = [stage |-> "idle", mode |-> san.mode]
    /\ UNCHANGED <<portfolio, last>>

NextCycle ==
    \/ GetMarketData
    \/ AnalyzeMarket
    \/ MakeTradingDecision
    \/ ExecuteTrade
    \/ Sleep

SpecCycle == InitCycle /\ [][NextCycle]_vars

(***************************************************************************)
(* The sanitizer as a state machine: an input recommendation is validated, *)
(* and the result is validated once more with the same market data         *)
(***************************************************************************)
SanMarkets == {[current_price |-> R(100), symbol |-> "BTCUSDT"], [symbol |-> "BTCUSDT"]}

SanActions == {"long", "short", "wait"}
SanConfidences == {-20, 70, 150}
\* entry prices: at the price, within 5% of it, more than 5% above it (for price 100)
SanEntries == {R(100), R(104), R(200)}
\* stops: 2% below, 10% below, 10% above, and 2% below the far entry
SanStops == {R(98), R(90), R(110), R(196)}
\* first take-profit targets below and above
SanTargets == {R(80), R(120)}

\* dict d with key k set to each value of vs, or without the key
WithOptional(d, k, vs) == {d} \cup {Put(d, k, v) : v \in vs}

SanEntryStrategies == WithOptional(<<>>, "entry_price", SanEntries)

SanRiskManagements ==
    UNION {WithOptional(d, "take_profit_1", SanTargets) :
              d \in WithOptional(<<>>, "stop_loss", SanStops)}

SanBlocks ==
    {<<>>} \cup
    {[entry_strategy |-> es, risk_management |-> rm] :
        es \in SanEntryStrategies, rm \in SanRiskManagements}

SanAnalyses ==
    {<<>>} \cup
    {Put(Put(b, "recommended_action", act), "confidence_score", c) :
        b \in SanBlocks, act \in SanActions, c \in SanConfidences}

InitSan ==
    /\ InitWith(DefaultConfig)
    /\ \E a \in SanAnalyses, m \in SanMarkets :
          san = [stage |-> "input", analysis |-> a, market_data |-> m]

\* result = validate_enhanced_analysis(analysis, market_data)
Validate ==
    /\ san.stage = "input"
    /\ san' = [stage |-> "validated", analysis |-> san.analysis,
               market_data |-> san.market_data,
               result |-> validate_enhanced_analysis(san.analysis, san.market_data)]
    /\ UNCHANGED <<portfolio, last>>

\* again = validate_enhanced_analysis(result, market_data)
Revalidate ==
    /\ san.stage = "validated"
    /\ ~IsRaised(san.result)
    /\ san' = [stage |-> "revalidated", analysis |-> san.analysis,
               market_data |-> san.market_data, result |-> san.result,
               again |-> validate_enhanced_analysis(san.result, san.market_data)]
    /\ UNCHANGED <<portfolio, last>>

NextSan ==
    \/ Validate
    \/ Revalidate

SpecSan == InitSan /\ [][NextSan]_vars

(***************************************************************************)
(* The sanitizer on recommendations in which a present field holds None or *)
(* a string, or in which entry_strategy / risk_management is not a dict    *)
(***************************************************************************)
WellFormed(action) ==
    [recommended_action |-> action,
     confidence_score |-> 70,
     entry_strategy |-> [entry_price |-> R(100)],
     risk_management |-> [stop_loss |-> R(98), take_profit_1 |-> R(120)]]

\* the analysis with one field replaced by the value v
Malformed(a, v) ==
    {[a EXCEPT !.entry_strategy = v],
     [a EXCEPT !.risk_management = v],
     [a EXCEPT !.entry_strategy = [entry_price |-> v]],
     [a EXCEPT !.risk_management = [stop_loss |-> v, take_profit_1 |-> R(120)]],
     [a EXCEPT !.risk_management = [stop_loss |-> R(98), take_profit_1 |-> v]]}

SanAnyAnalyses ==
    UNION {{WellFormed(act)} \cup Malformed(WellFormed(act), None)
                             \cup Malformed(WellFormed(act), Text) :
              act \in SanActions}

InitSanAny ==
    /\ InitWith(DefaultConfig)
    /\ \E a \in SanAnyAnalyses, m \in SanMarkets :
          san = [stage |-> "input", analysis |-> a, market_data |-> m]

SpecSanAny == InitSanAny /\ [][NextSan]_vars

(***************************************************************************)
(* Properties of the risk manager, checked under Spec                      *)
(***************************************************************************)
IsCalc == last.op = "calculate_position_size"

\* the call returned a rejection with this reason, size 0 and risk 0
RejectedWith(reason) ==
    /\ ~IsRaised(last.ret)
    /\ last.ret.allowed = FALSE
    /\ last.ret.position_size = R(0)
    /\ last.ret.risk_amount = R(0)
    /\ last.ret.reason = reason

\* C1: in every reachable portfolio state, a call of calculate_position_size
\* with confidence below 0.5 returns allowed = false, position_size 0 and the
\* low-confidence reason.
C1_LowConfidenceRejected ==
    (IsCalc /\ Get(last.analysis, "confidence", 0) < 50)
        => RejectedWith(ReasonLowConfidence)

\* C1 witness: such a call made while the position limit is reached and a
\* position is open whose risk is above the portfolio cap.
C1_Witness ==
    /\ IsCalc
    /\ last.analysis.confidence = 45
    /\ Len(current_positions) >= 3
    /\ RGt(SumRisk(current_positions), R(600))
    /\ last.ret.reason = ReasonLowConfidence

\* which of the six checks fail for this analysis in the current state, in the
\* order confidence, risk:reward, position count, daily loss, daily trades,
\* portfolio risk
FailingChecks(analysis) ==
    <<LowConfidence(analysis), LowRiskReward(analysis), PositionLimitReached,
      DailyLossReached, DailyTradesReached, PortfolioRiskReached>>

CheckReasons ==
    <<ReasonLowConfidence, ReasonLowRiskReward, ReasonPositionLimit,
      ReasonDailyLoss, ReasonDailyTrades, ReasonPortfolioRisk>>

\* C2: the six checks are evaluated in the fixed order: the returned reason is
\* that of the first failing check, and every rejection carries
\* position_size = 0 and risk_amount = 0.
C2_FirstFailingCheckDecides ==
    IsCalc =>
        /\ ~IsRaised(last.ret)
        /\ \A k \in 1..6 :
              (/\ FailingChecks(last.analysis)[k]
               /\ \A j \in 1..(k - 1) : ~FailingChecks(last.analysis)[j])
                  => RejectedWith(CheckReasons[k])
        /\ (last.ret.allowed = FALSE)
              => (last.ret.position_size = R(0) /\ last.ret.risk_amount = R(0))

\* C2 witness: a call in which the daily-loss, daily-trade and portfolio-risk
\* checks all fail and the earlier three pass; the daily-loss reason is returned.
C2_Witness ==
    /\ IsCalc
    /\ FailingChecks(last.analysis) = <<FALSE, FALSE, FALSE, TRUE, TRUE, TRUE>>
    /\ last.ret.reason = ReasonDailyLoss

\* C3 as claimed: with max_positions = 3 and 3 positions open, every call
\* returns allowed = false with the position-limit reason, whatever its analysis.
C3_Claimed ==
    (IsCalc /\ max_positions = 3 /\ Len(current_positions) >= 3)
        => RejectedWith(ReasonPositionLimit)

\* C3 amended: with max_positions = 3 and 3 positions open, every call returns
\* allowed = false; the reason is the position-limit reason when the analysis
\* passes the confidence and risk:reward checks, which come first, and the
\* reason of the first of those two that fails otherwise.
C3_PositionLimitRejects ==
    (IsCalc /\ max_positions = 3 /\ Len(current_positions) >= 3)
        => LET c == Get(last.analysis, "confidence", 0)
               rr == Get(last.analysis, "risk_reward_ratio", R(0))
           IN  RejectedWith(IF c < 50 THEN ReasonLowConfidence
                            ELSE IF RLt(rr, R(2)) THEN ReasonLowRiskReward
                            ELSE ReasonPositionLimit)

\* C3 witness: three positions open, a confident analysis with risk:reward 2,
\* rejected for the position limit.
C3_Witness ==
    /\ IsCalc
    /\ Len(current_positions) = 3
    /\ last.analysis.confidence = 85
    /\ last.analysis.risk_reward_ratio = R(2)
    /\ last.ret.allowed = FALSE
    /\ last.ret.reason = ReasonPositionLimit

\* a single open position whose risk_amount alone exceeds balance x max_portfolio_risk
SingleBigPosition ==
    /\ Len(current_positions) = 1
    /\ RGt(current_positions[1].risk_amount, RMul(R(balance), Rat(6, 100)))

\* C4 as claimed: with such a position open, a following call returns
\* allowed = false with the portfolio-risk reason.
C4_Claimed ==
    (IsCalc /\ SingleBigPosition) => RejectedWith(ReasonPortfolioRisk)

\* C4 amended: with such a position open, a following call returns
\* allowed = false; its reason is the portfolio-risk reason when the analysis
\* has confidence >= 0.5 and risk:reward >= 2 and the daily-loss and
\* daily-trade limits are not reached (the checks that come first).
C4_PortfolioRiskRejects ==
    (IsCalc /\ SingleBigPosition)
        => /\ ~IsRaised(last.ret)
           /\ last.ret.allowed = FALSE
           /\ (/\ Get(last.analysis, "confidence", 0) >= 50
               /\ RGe(Get(last.analysis, "risk_reward_ratio", R(0)), R(2))
               /\ ~(RLt(daily_pnl, R(0)) /\ RGe(RAbs(daily_pnl), R(500)))
               /\ daily_trades < config.max_daily_trades)
                 => RejectedWith(ReasonPortfolioRisk)

\* C4 witness: one position of risk 1000 open (cap 600), the earlier checks
\* pass, the call is rejected for portfolio risk.
C4_Witness ==
    /\ IsCalc
    /\ SingleBigPosition
    /\ current_positions[1].risk_amount = R(1000)
    /\ last.analysis.confidence = 85
    /\ last.ret.allowed = FALSE
    /\ last.ret.reason = ReasonPortfolioRisk

\* the reference call: entry 50000, stop 49000, risk:reward >= 2, 24h change 2%,
\* 24h volume 3e9, balance 10000, with this confidence
IsRefCall(confidence) ==
    /\ IsCalc
    /\ balance = 10000
    /\ last.analysis.confidence = confidence
    /\ last.analysis.entry_price = R(50000)
    /\ last.analysis.stop_loss = R(49000)
    /\ RGe(last.analysis.risk_reward_ratio, R(2))
    /\ last.market_data["24h_change_percent"] = R(2)
    /\ last.market_data["24h_volume"] = 3000

\* x is within tol of target
Near(x, target, tol) == RLe(RAbs(RSub(x, target)), tol)

OtherChecksPass ==
    /\ Len(current_positions) < 3
    /\ ~(RLt(daily_pnl, R(0)) /\ RGe(RAbs(daily_pnl), R(500)))
    /\ daily_trades < config.max_daily_trades
    /\ RLt(SumRisk(current_positions), R(600))

\* C6 as claimed: the reference call with confidence 0.55, the other checks
\* passing, returns allowed = false with the low-confidence reason.
C6_Claimed ==
    (IsRefCall(55) /\ OtherChecksPass) => RejectedWith(ReasonLowConfidence)

\* C6 amended: the reference call with confidence 0.55, the other checks
\* passing, passes the confidence check (its threshold is 0.5), gets the
\* confidence multiplier 0.5 and returns allowed = true with a positive size;
\* the low-confidence rejection needs confidence < 0.5.
C6_Confidence55Accepted ==
    (IsRefCall(55) /\ OtherChecksPass)
        => /\ ~IsRaised(last.ret)
           /\ last.ret.allowed = TRUE
           /\ last.ret.reason = ReasonSized
           /\ RGt(last.ret.position_size, R(0))
           /\ _calculate_confidence_multiplier(55) = Rat(1, 2)

\* C6 witness: the reference call with confidence 0.55 on a portfolio with an
\* open position, allowed.
C6_Witness ==
    /\ IsRefCall(55)
    /\ OtherChecksPass
    /\ Len(current_positions) >= 1
    /\ last.ret.allowed = TRUE

\* C10: close_position with a symbol that has no open position returns None
\* and leaves daily_pnl, the open positions, trade_history and daily_trades
\* unchanged.
C10_CloseUnknownSymbol ==
    [][(/\ last'.op = "close_position"
        /\ \A i \in DOMAIN current_positions :
              current_positions[i].symbol # last'.symbol)
          => (/\ last'.ret = None
              /\ UNCHANGED <<daily_pnl, current_positions, trade_history,
                             daily_trades>>)]_vars

\* C10 witness: close_position returned None while positions are open and the
\* day has a realized loss.
C10_Witness ==
    /\ last.op = "close_position"
    /\ last.ret = None
    /\ current_positions # <<>>
    /\ \A i \in DOMAIN current_positions : current_positions[i].symbol # last.symbol
    /\ RLt(daily_pnl, R(0))

AdjustedSize ==
    _adjust_position_size(
        RDiv(RMul(R(balance), max_risk_per_trade),
             RAbs(RSub(last.analysis.entry_price, last.analysis.stop_loss))),
        last.analysis.confidence, last.analysis, last.market_data)

Headroom == RSub(RMul(R(balance), Rat(6, 100)), SumRisk(current_positions))

\* C15: when all checks pass and the adjusted size is worth at least $100, the
\* final size is min(adjusted size, 0.25 x balance / entry_price,
\* headroom / (0.02 x entry_price)).
C15_RiskCapByTwoPercent ==
    (/\ IsCalc
     /\ FailingChecks(last.analysis) = <<FALSE, FALSE, FALSE, FALSE, FALSE, FALSE>>
     /\ last.analysis.entry_price # last.analysis.stop_loss
     /\ RGe(RMul(AdjustedSize, last.analysis.entry_price), R(100)))
        => /\ ~IsRaised(last.ret)
           /\ last.ret.position_size =
                 RMin(RMin(AdjustedSize,
                           RDiv(RMul(R(balance), Rat(25, 100)), last.analysis.entry_price)),
                      RDiv(Headroom, RMul(last.analysis.entry_price, Rat(2, 100))))

\* C17: when all six checks pass and entry_price equals stop_loss,
\* calculate_position_size returns allowed = false with position_size 0,
\* risk_amount 0 and the undeterminable-risk reason, and the portfolio state
\* is unchanged.
C17_ZeroRiskRejected ==
    [][(/\ last'.op = "calculate_position_size"
        /\ FailingChecks(last'.analysis) = <<FALSE, FALSE, FALSE, FALSE, FALSE, FALSE>>
        /\ last'.analysis.entry_price = last'.analysis.stop_loss)
          => (/\ ~IsRaised(last'.ret)
              /\ last'.ret.allowed = FALSE
              /\ last'.ret.position_size = R(0)
              /\ last'.ret.risk_amount = R(0)
              /\ last'.ret.reason = ReasonNoRisk
              /\ UNCHANGED portfolio)]_vars

\* C17 witness: such a call on a portfolio with an open position and a closed
\* trade, rejected with the undeterminable-risk reason.
C17_Witness ==
    /\ IsCalc
    /\ last.analysis.entry_price = last.analysis.stop_loss
    /\ FailingChecks(last.analysis) = <<FALSE, FALSE, FALSE, FALSE, FALSE, FALSE>>
    /\ current_positions # <<>>
    /\ trade_history # <<>>
    /\ last.ret.reason = ReasonNoRisk
    /\ last.ret.allowed = FALSE

\* the day's loss is at least max_daily_loss (5%) of the balance
LossLocked ==
    /\ RLt(daily_pnl, R(0))
    /\ RGe(RAbs(daily_pnl), RMul(R(balance), Rat(5, 100)))

\* C18: while daily_pnl is negative and |daily_pnl| / balance >= max_daily_loss
\* every calculate_position_size call returns allowed = false; the lockout
\* survives calculate_position_size and add_position calls (only
\* reset_daily_stats or a close_position changes daily_pnl); right after
\* reset_daily_stats daily_pnl = 0 and daily_trades = 0, so the daily-loss and
\* daily-trade checks pass.
C18_DailyLossLockout ==
    /\ []((IsCalc /\ LossLocked) => (~IsRaised(last.ret) /\ last.ret.allowed = FALSE))
    /\ [][(LossLocked /\ last'.op \in {"calculate_position_size", "add_position"})
            => (LossLocked' /\ daily_pnl' = daily_pnl)]_vars
    /\ [][(daily_pnl' # daily_pnl)
            => last'.op \in {"reset_daily_stats", "close_position"}]_vars
    /\ [][(last'.op = "reset_daily_stats")
            => (/\ daily_pnl' = R(0)
                /\ daily_trades' = 0
                /\ ~LossLocked'
                /\ daily_trades' < config'.max_daily_trades)]_vars

\* C18 witness: a call that passes every other check, rejected for the daily
\* loss after an add_position made during the lockout.
C18_Witness ==
    /\ IsCalc
    /\ LossLocked
    /\ FailingChecks(last.analysis) = <<FALSE, FALSE, FALSE, TRUE, FALSE, FALSE>>
    /\ current_positions # <<>>
    /\ last.ret.allowed = FALSE
    /\ last.ret.reason = ReasonDailyLoss

(***************************************************************************)
(* Properties of the risk manager under any configuration, checked under   *)
(* SpecConfigured                                                          *)
(***************************************************************************)
\* C12: calculate_position_size never ends in an unhandled error: for every
\* input and configuration (entry_price = 0 with a non-zero stop, balance = 0,
\* volatility_adjustment disabled) it returns a decision, and an internal
\* failure is reported as a rejected decision.
C12_NeverRaises ==
    IsCalc => (~IsRaised(last.ret) /\ "allowed" \in DOMAIN last.ret)

\* C16: every decision returned with allowed = true has a position value
\* (position_size x entry_price) of at least $100, also after the
\* 25%-of-balance cap and the portfolio-risk cap.
C16_AllowedWorthHundred ==
    (IsCalc /\ ~IsRaised(last.ret) /\ last.ret.allowed)
        => RGe(RMul(last.ret.position_size, last.analysis.entry_price), R(100))

(***************************************************************************)
(* Properties of the risk manager with a long trade history, checked under *)
(* SpecKelly                                                               *)
(***************************************************************************)
\* C19: calculate_position_size and get_portfolio_summary leave every field
\* of the portfolio state unchanged (open positions, daily_pnl, daily_trades,
\* trade_history, balance, win_rate, avg_win, avg_loss), whatever the length
\* of trade_history.
C19_CalculateChangesNothing ==
    [][(last'.op \in {"calculate_position_size", "get_portfolio_summary"})
          => UNCHANGED portfolio]_vars

\* the pnl of the winning and of the losing trades of the history
WonPnl == SelectSeq(trade_history, LAMBDA t : t.pnl.n > 0)
LostPnl == SelectSeq(trade_history, LAMBDA t : t.pnl.n < 0)

\* (b p - q) / b clamped to [0.1, 0.5], for a history with wins and losses
KellyFormula ==
    LET p == Rat(Len(WonPnl), Len(trade_history))
        q == RSub(R(1), p)
        b == RDiv(RDiv(SumPnl(WonPnl), R(Len(WonPnl))),
                  RAbs(RDiv(SumPnl(LostPnl), R(Len(LostPnl)))))
        f == RDiv(RSub(RMul(b, p), q), b)
    IN  IF RLt(f, Rat(1, 10)) THEN Rat(1, 10)
        ELSE IF RGt(f, Rat(1, 2)) THEN Rat(1, 2) ELSE f

IsAccepted == IsCalc /\ ~IsRaised(last.ret) /\ last.ret.allowed

\* C20 as claimed: the kelly_fraction of an accepted decision is 0.5 below 10
\* closed trades and the clamped formula otherwise, also for a history with
\* no winning trade (p = 0 and b = 0: the clamp gives 0.1) or no losing trade
\* (q = 0: the formula gives p, clamped to 0.5).
C20_Claimed ==
    IsAccepted =>
        last.ret.kelly_fraction =
            IF Len(trade_history) < 10 THEN Rat(1, 2)
            ELSE IF WonPnl = <<>> THEN Rat(1, 10)
            ELSE IF LostPnl = <<>>
                 THEN RMin(Rat(1, 2), RMax(Rat(1, 10),
                                           Rat(Len(WonPnl), Len(trade_history))))
            ELSE KellyFormula

\* C20 amended: the kelly_fraction of an accepted decision is 0.5 below 10
\* closed trades; with 10 or more it is 0.25 when the history has no winning
\* trade or no losing trade, and otherwise (b p - q) / b clamped to
\* [0.1, 0.5], computed from the current trade_history.
C20_KellyFraction ==
    IsAccepted =>
        last.ret.kelly_fraction =
            IF Len(trade_history) < 10 THEN Rat(1, 2)
            ELSE IF WonPnl = <<>> \/ LostPnl = <<>> THEN Rat(1, 4)
            ELSE KellyFormula

\* C20 witness: an accepted decision on a history of at least 10 trades with
\* wins and losses, whose fraction lies strictly inside the clamp.
C20_Witness ==
    /\ IsAccepted
    /\ Len(trade_history) >= 10
    /\ WonPnl # <<>>
    /\ LostPnl # <<>>
    /\ RGt(last.ret.kelly_fraction, Rat(1, 10))
    /\ RLt(last.ret.kelly_fraction, Rat(1, 2))
    /\ last.ret.kelly_fraction # Rat(1, 4)

(***************************************************************************)
(* Properties of the sanitizer, checked under SpecSan                      *)
(***************************************************************************)
SanPrice == Get(san.market_data, "current_price", R(DefaultCurrentPrice))

\* C7: the returned recommendation has |entry_price - stop_loss| <= 3% of the
\* current price, for the entry_price and stop_loss of the returned structure.
C7_StopWithinThreePercent ==
    (san.stage = "validated")
        => RLe(RAbs(RSub(san.result.entry_strategy.entry_price,
                         san.result.risk_management.stop_loss)),
               RMul(SanPrice, Rat(3, 100)))

\* C8: the risk_reward_ratio of the result is at least 2.0, for long, short
\* and wait, also when the input has no take_profit_1.
C8_RiskRewardAtLeastTwo ==
    (san.stage = "validated")
        => RGe(san.result.risk_management.risk_reward_ratio, R(2))

\* the fields of a recommendation the idempotence is about
Essentials(r) ==
    <<r.entry_strategy.entry_price,
      r.risk_management.stop_loss,
      Get(r.risk_management, "take_profit_1", None),
      Get(r.risk_management, "take_profit_2", None),
      r.risk_management.risk_reward_ratio,
      r.confidence_score,
      r.recommended_action>>

\* C9: the sanitizer is idempotent: validating its own result with the same
\* market data gives the same entry, stop, targets, ratio, confidence, action.
C9_Idempotent ==
    (san.stage = "revalidated") => Essentials(san.again) = Essentials(san.result)

(***************************************************************************)
(* Properties of the sanitizer on malformed input, checked under SpecSanAny*)
(***************************************************************************)
\* C13: validate_enhanced_analysis never raises: for every input, also one
\* where entry_price, stop_loss or take_profit_1 holds None or a string or
\* where entry_strategy / risk_management is not a mapping, it returns a
\* recommendation.
C13_SanitizerNeverRaises ==
    (san.stage # "input")
        => (/\ ~IsRaised(san.result)
            /\ required_fields \subseteq DOMAIN san.result)

(***************************************************************************)
(* Properties of the decision cycle, checked under SpecCycle               *)
(***************************************************************************)
\* C14: in every decision cycle, whichever provider produced the
\* recommendation, calculate_position_size is called only on a recommendation
\* that went through the sanitizer in that cycle.
C14_SanitizedBeforeSizing ==
    (san.stage = "decided" /\ san.called) => san.sanitized

(***************************************************************************)
(* Two risk managers that agree on the configuration, the balance, the     *)
(* open positions, daily_pnl and daily_trades and differ in trade_history: *)
(* the variables hold the manager that is called, san holds the fields of  *)
(* the other one that differ (its history and the statistics derived from  *)
(* it).  add_position and reset_daily_stats are made on both.              *)
(***************************************************************************)
\* a history too short for the Kelly statistics, and histories at the bound
\* with k winning trades followed by losing ones
TwinHistories ==
    {<<LossRecord>>} \cup
    {[i \in 1..MaxKellyHistory |-> IF i <= k THEN WinRecord ELSE LossRecord] :
        k \in {0, 3, 6}}

InitTwin ==
    /\ config = DefaultConfig
    /\ balance = DefaultConfig.initial_balance
    /\ current_positions = <<>>
    /\ daily_pnl = R(0)
    /\ daily_trades = 0
    /\ win_rate = R(0)
    /\ avg_win = R(0)
    /\ avg_loss = R(0)
    /\ last = [op |-> "reset_daily_stats"]
    /\ \E h1 \in TwinHistories, h2 \in TwinHistories :
          /\ h1 # h2
          /\ trade_history = h1
          /\ san = [stage |-> "twin", trade_history |-> h2,
                    win_rate |-> R(0), avg_win |-> R(0), avg_loss |-> R(0)]

\* the next call goes to the other manager
OtherManager ==
    /\ san.stage = "twin"
    /\ trade_history' = san.trade_history
    /\ win_rate' = san.win_rate
    /\ avg_win' = san.avg_win
    /\ avg_loss' = san.avg_loss
    /\ san' = [stage |-> "twin", trade_history |-> trade_history,
               win_rate |-> win_rate, avg_win |-> avg_win, avg_loss |-> avg_loss]
    /\ UNCHANGED <<config, balance, current_positions, daily_pnl, daily_trades, last>>

NextTwin ==
    \/ Calculate
    \/ AddKelly
    \/ ResetDailyStats
    \/ GetPortfolioSummary
    \/ OtherManager

SpecTwin == InitTwin /\ [][NextTwin]_vars

\* C21: the Kelly fraction is advisory only: two risk managers that agree on
\* configuration, balance, open positions, daily_pnl and daily_trades but
\* differ in trade_history return the same allowed, position_size and
\* risk_amount for the same analysis and market data (the decision one manager
\* returned is the decision the manager now held returns for that call).
C21_KellyAdvisoryOnly ==
    (san.stage = "twin" /\ IsCalc /\ ~IsRaised(last.ret))
        => Let(calculate_position_size(last.analysis, last.market_data),
               LAMBDA other :
                  /\ other.allowed = last.ret.allowed
                  /\ other.position_size = last.ret.position_size
                  /\ other.risk_amount = last.ret.risk_amount)

\* C21 witness: a decision accepted by one manager with a positive size, and
\* the other manager is held now, whose Kelly fraction is a different one.
C21_Witness ==
    /\ san.stage = "twin"
    /\ IsAccepted
    /\ RGt(last.ret.position_size, R(0))
    /\ last.ret.kelly_fraction # _calculate_kelly_fraction
    /\ calculate_position_size(last.analysis, last.market_data).position_size
          = last.ret.position_size

(***************************************************************************)
(* The reported risk:reward ratio of the sanitizer, checked under SpecSan  *)
(***************************************************************************)
\* C22: the risk_reward_ratio reported in the sanitizer's result equals
\* |take_profit_1 - entry_price| / |entry_price - stop_loss| computed from the
\* entry_price, stop_loss and take_profit_1 present in that same result (or 2.0
\* when that risk is 0), also when the entry price or the stop was replaced
\* during sanitization.
C22_RatioFromResult ==
    (san.stage = "validated"
        /\ "take_profit_1" \in DOMAIN san.result.risk_management)
        => LET entry_price == san.result.entry_strategy.entry_price
               stop_loss == san.result.risk_management.stop_loss
               take_profit_1 == san.result.risk_management.take_profit_1
               risk == RAbs(RSub(entry_price, stop_loss))
           IN  san.result.risk_management.risk_reward_ratio =
                  IF risk.n = 0 THEN R(2)
                  ELSE RDiv(RAbs(RSub(take_profit_1, entry_price)), risk)

(***************************************************************************)
(* The balance, checked under SpecConfigured                               *)
(***************************************************************************)
\* C30: the balance used for every risk check and for sizing stays equal to
\* the configured initial_balance after any sequence of add_position,
\* close_position, reset_daily_stats and calculate_position_size calls:
\* realized profit and loss goes to daily_pnl and trade_history only and never
\* changes balance.
C30_BalanceStaysInitial ==
    /\ [](balance = config.initial_balance)
    /\ [][balance' = balance /\ config' = config]_vars
    /\ [][(last'.op = "close_position" /\ last'.ret # None)
            => (/\ daily_pnl' = RAdd(daily_pnl, last'.ret.pnl)
                /\ trade_history' = Append(trade_history, last'.ret))]_vars

\* C30 witness: a sizing call made after a position was closed at a loss; the
\* loss is in daily_pnl and trade_history, the balance is the configured one.
C30_Witness ==
    /\ IsCalc
    /\ trade_history # <<>>
    /\ RLt(trade_history[1].pnl, R(0))
    /\ RLt(daily_pnl, R(0))
    /\ balance = config.initial_balance
    /\ balance > 0

(***************************************************************************)
(* Bookkeeping of the risk manager, checked under Spec                     *)
(***************************************************************************)
\* positions opened so far and still open or closed
Booked == Len(current_positions) + Len(trade_history)

\* the step is an add_position call that returned true
AddedTrue == last'.op = "add_position" /\ last'.ret = TRUE

DerivedStatistics ==
    [win_rate |-> Rat(Len(WonPnl), Len(trade_history)),
     avg_win |-> IF WonPnl # <<>> THEN RDiv(SumPnl(WonPnl), R(Len(WonPnl))) ELSE R(0),
     avg_loss |-> IF LostPnl # <<>> THEN RDiv(SumPnl(LostPnl), R(Len(LostPnl)))
                  ELSE R(0)]

\* C27: in every reachable state with closed trades, the win_rate, avg_win and
\* avg_loss held by the risk manager (and reported by get_portfolio_summary)
\* equal the statistics derived from the current trade_history: winning
\* trades / all closed trades, mean positive pnl, mean negative pnl; in
\* particular right after each close_position.
C27_StatisticsCurrent ==
    (trade_history # <<>>)
        => /\ win_rate = DerivedStatistics.win_rate
           /\ avg_win = DerivedStatistics.avg_win
           /\ avg_loss = DerivedStatistics.avg_loss
           /\ (last.op = "get_portfolio_summary")
                 => /\ last.ret.win_rate = DerivedStatistics.win_rate
                    /\ last.ret.avg_win = DerivedStatistics.avg_win
                    /\ last.ret.avg_loss = DerivedStatistics.avg_loss

(***************************************************************************)
(* Decision cycles that share one risk manager: each cycle is the          *)
(* calculate_position_size call of make_trading_decision followed, if and  *)
(* only if the decision is allowed, by the add_position call of            *)
(* execute_trade.  In the serial mode a cycle starts when no other cycle   *)
(* holds a decision; in the interleaved mode two cycles run at once.       *)
(* close_position and reset_daily_stats come in between.                   *)
(***************************************************************************)
SharedCycles == {1, 2}
SharedModes == {"serial", "interleaved"}

\* a recommendation whose stop is far from the entry
WideStop(action, confidence_score, stop_loss, take_profit_1) ==
    [market_sentiment |-> IF action = "long" THEN "bullish" ELSE "bearish",
     confidence_score |-> confidence_score,
     recommended_action |-> action,
     entry_strategy |-> [entry_price |-> R(50000)],
     risk_management |-> [stop_loss |-> stop_loss, take_profit_1 |-> take_profit_1,
                          risk_reward_ratio |-> R(2)],
     reasoning |-> "AI analysis"]

\* a long with confidence 0.55 and the stop 49% below the entry, a short with
\* confidence 0.95 and the stop 196% above it, a recommendation to wait
SharedAnalyses ==
    {WideStop("long", 55, R(25500), R(99000)),
     WideStop("short", 95, R(148000), R(1000)),
     AiAnalysis("wait", R(50000))}

InitShared ==
    /\ InitWith(DefaultConfig)
    /\ \E mode \in SharedModes :
          san = [stage |-> "shared", mode |-> mode,
                 pending |-> [c \in SharedCycles |-> None]]

\* decision = make_trading_decision(analysis, market_data) of cycle c
DecideCycle(c) ==
    /\ san.stage = "shared"
    /\ san.pending[c] = None
    /\ (san.mode = "serial") => (\A o \in SharedCycles : san.pending[o] = None)
    /\ \E analysis \in SharedAnalyses :
          IF \/ Get(analysis, "confidence_score", 0) < 50
             \/ Get(analysis, "recommended_action", "wait") = "wait"
          THEN UNCHANGED vars
          ELSE LET market_data == CycleMarket(2)
                   risk_analysis == _adapt_analysis_for_risk_manager(analysis)
                   position_calc == calculate_position_size(risk_analysis, market_data)
               IN  /\ CalculateStep(risk_analysis, market_data)
                   /\ san' = [san EXCEPT !.pending[c] =
                                 IF IsRaised(position_calc) THEN None
                                 ELSE IF ~position_calc.allowed THEN None
                                 ELSE Decision(analysis, market_data, position_calc)]

\* execute_trade(decision) of cycle c
ExecuteCycle(c) ==
    /\ san.stage = "shared"
    /\ san.pending[c] # None
    /\ AddStep(san.pending[c])
    /\ san' = [san EXCEPT !.pending[c] = None]

\* close_position on the symbol the cycles trade
CloseShared ==
    /\ FirstIndex("BTCUSDT") = 0 \/ Len(trade_history) < MaxHistory
    /\ ClosePosition("BTCUSDT", R(52000))

NextShared ==
    \/ \E c \in SharedCycles : DecideCycle(c)
    \/ \E c \in SharedCycles : ExecuteCycle(c)
    \/ CloseShared
    \/ ResetDailyStats

SpecShared == InitShared /\ [][NextShared]_vars

\* C25: when decision cycles run strictly one after another on one risk
\* manager, interleaved with close_position and reset_daily_stats, the number
\* of open positions never exceeds max_positions; when two cycles interleave
\* so that both run calculate_position_size before either runs add_position,
\* both can be allowed and the number of open positions reaches
\* max_positions + 1 (and no more than that with two cycles).
C25_PositionLimit ==
    (san.stage = "shared")
        => /\ (san.mode = "serial") => Len(current_positions) <= max_positions
           /\ (san.mode = "interleaved") => Len(current_positions) <= max_positions + 1

\* C25 witness: two interleaved cycles were both allowed with two positions
\* open and both added their position: max_positions + 1 are open.
C25_Witness ==
    /\ san.stage = "shared"
    /\ san.mode = "interleaved"
    /\ last.op = "add_position"
    /\ last.ret = TRUE
    /\ Len(current_positions) = max_positions + 1

\* C28: in any serial sequence of decision cycles in which a position is added
\* only with the size and risk_amount of an allowed decision, interleaved with
\* close_position and reset_daily_stats, the sum of risk_amount over the open
\* positions never exceeds balance x max_portfolio_risk, for every entry price
\* and stop loss of the analyses.
C28_PortfolioRiskCap ==
    (san.stage = "shared" /\ san.mode = "serial")
        => RLe(SumRisk(current_positions), RMul(R(balance), max_portfolio_risk))

\* C29: for every accepted decision of calculate_position_size, risk_amount
\* (final size x |entry_price - stop_loss|) does not exceed
\* balance x max_risk_per_trade, whatever the multipliers are.
C29_PerTradeRiskCap ==
    IsAccepted
        => /\ last.ret.risk_amount =
                 RMul(last.ret.position_size,
                      RAbs(RSub(last.analysis.entry_price, last.analysis.stop_loss)))
           /\ RLe(last.ret.risk_amount, RMul(R(balance), max_risk_per_trade))

(***************************************************************************)
(* Technical indicators: TechnicalAnalysisTool                             *)
(* (tools/technical_analysis/tool.py).  Prices are whole numbers; the      *)
(* averages and ratios of the code are exact rationals.                    *)
(***************************************************************************)
RECURSIVE SumSeq(_)
SumSeq(xs) == IF xs = <<>> THEN 0 ELSE xs[1] + SumSeq(Tail(xs))

\* Python's seq[-n:]
LastN(seq, n) ==
    IF n = 0 \/ n >= Len(seq) THEN seq
    ELSE SubSeq(seq, Len(seq) - n + 1, Len(seq))

\* np.mean of a non-empty slice
Mean(xs) == Rat(SumSeq(xs), Len(xs))

\* Variant of the RSI that averages over every delta of the series
RsiOverAllDeltas(prices, period) ==
    IF Len(prices) < period + 1 THEN R(50)
    ELSE LET deltas == [i \in 1..(Len(prices) - 1) |-> prices[i + 1] - prices[i]]
             gains == [i \in DOMAIN deltas |-> IF deltas[i] > 0 THEN deltas[i] ELSE 0]
             losses == [i \in DOMAIN deltas |-> IF deltas[i] < 0 THEN -deltas[i] ELSE 0]
             rsi_avg_gain == Mean(gains)
             rsi_avg_loss == Mean(losses)
         IN  IF rsi_avg_loss.n = 0 THEN R(100)
             ELSE RSub(R(100), RDiv(R(100), RAdd(R(1), RDiv(rsi_avg_gain, rsi_avg_loss))))

\* calculate_rsi(prices, period)
calculate_rsi(prices, period) ==
    IF Len(prices) < period + 1 THEN R(50)
    ELSE LET deltas == [i \in 1..(Len(prices) - 1) |-> prices[i + 1] - prices[i]]
             gains == [i \in DOMAIN deltas |-> IF deltas[i] > 0 THEN deltas[i] ELSE 0]
             losses == [i \in DOMAIN deltas |-> IF deltas[i] < 0 THEN -deltas[i] ELSE 0]
             rsi_avg_gain == Mean(LastN(gains, period))
             rsi_avg_loss == Mean(LastN(losses, period))
         IN  IF rsi_avg_loss.n = 0 THEN R(100)
             ELSE RSub(R(100), RDiv(R(100), RAdd(R(1), RDiv(rsi_avg_gain, rsi_avg_loss))))

\* lines 263-294: the trend and strength of one timeframe with at least 10
\* candles (closes[-5] is not 0 in the candles explored; the division of line
\* 279 raises ZeroDivisionError otherwise)
TimeframeTrend(klines) ==
    LET closes == [i \in DOMAIN klines |-> klines[i].close]
        sma_short == IF Len(closes) >= 5 THEN Rat(SumSeq(LastN(closes, 5)), 5)
                     ELSE R(closes[Len(closes)])
        sma_long == IF Len(closes) >= 10 THEN Rat(SumSeq(LastN(closes, 10)), 10)
                    ELSE R(closes[Len(closes)])
        price_change == Rat(closes[Len(closes)] - closes[Len(closes) - 4],
                            closes[Len(closes) - 4])
    IN  [trend |-> IF RGt(sma_short, RMul(sma_long, Rat(1002, 1000))) THEN "bullish"
                   ELSE IF RLt(sma_short, RMul(sma_long, Rat(998, 1000))) THEN "bearish"
                   ELSE "sideways",
         strength |-> IF RGt(RAbs(price_change), Rat(2, 100)) THEN "strong"
                      ELSE IF RGt(RAbs(price_change), Rat(1, 100)) THEN "medium"
                      ELSE "weak",
         sma_short |-> sma_short,
         sma_long |-> sma_long]

\* analyze_multiple_timeframes(klines_data)
analyze_multiple_timeframes(klines_data) ==
    LET analysed == {tf \in DOMAIN klines_data :
                        ~(klines_data[tf] = <<>> \/ Len(klines_data[tf]) < 10)}
        timeframe_analysis == [tf \in analysed |-> TimeframeTrend(klines_data[tf])]
        bullish == Cardinality({tf \in analysed :
                                   timeframe_analysis[tf].trend = "bullish"})
        bearish == Cardinality({tf \in analysed :
                                   timeframe_analysis[tf].trend = "bearish"})
    IN  [timeframes |-> timeframe_analysis,
         overall_trend |-> IF bullish > bearish THEN "bullish"
                           ELSE IF bearish > bullish THEN "bearish" ELSE "mixed",
         trend_agreement |->
            Cardinality({timeframe_analysis[tf].trend : tf \in analysed}) = 1]

MaxPrices == 4   \* the longest price series given to calculate_rsi

Periods == {1, 2, 3}
PriceSeries == UNION {[1..n -> {1, 2, 3}] : n \in 0..MaxPrices}

Candles(closes) == [i \in DOMAIN closes |-> [close |-> closes[i]]]

\* ten closes rising by 10%, falling by as much, flat; nine rising closes; no candle
RisingCloses == <<100, 100, 100, 100, 100, 110, 110, 110, 110, 110>>
FallingCloses == <<110, 110, 110, 110, 110, 100, 100, 100, 100, 100>>
FlatCloses == <<100, 100, 100, 100, 100, 100, 100, 100, 100, 101>>
KlineSeries ==
    {<<>>, Candles(SubSeq(RisingCloses, 2, 10)), Candles(RisingCloses),
     Candles(FallingCloses), Candles(FlatCloses)}

Timeframes == {"1h", "4h", "1d"}
KlinesData == UNION {[present -> KlineSeries] : present \in SUBSET Timeframes}

InitTechnical ==
    /\ InitWith(DefaultConfig)
    /\ \/ \E klines_data \in KlinesData :
             san = [stage |-> "klines", klines_data |-> klines_data]
       \/ \E prices \in PriceSeries, period \in Periods :
             san = [stage |-> "prices", prices |-> prices, period |-> period]

\* result = analyze_multiple_timeframes(klines_data)
AnalyzeMultipleTimeframes ==
    /\ san.stage = "klines"
    /\ san' = [stage |-> "timeframes", klines_data |-> san.klines_data,
               result |-> analyze_multiple_timeframes(san.klines_data)]
    /\ UNCHANGED <<portfolio, last>>

\* result = calculate_rsi(prices, period)
CalculateRsi ==
    /\ san.stage = "prices"
    /\ san' = [stage |-> "rsi", prices |-> san.prices, period |-> san.period,
               result |-> calculate_rsi(san.prices, san.period)]
    /\ UNCHANGED <<portfolio, last>>

NextTechnical ==
    \/ AnalyzeMultipleTimeframes
    \/ CalculateRsi

SpecTechnical == InitTechnical /\ [][NextTechnical]_vars

\* C23: timeframes with fewer than 10 candles are skipped and cast no vote;
\* over the remaining ones the overall trend is bullish when the bullish count
\* exceeds the bearish count, bearish in the reverse case and mixed on a tie;
\* trend_agreement is true if and only if all analysed timeframes produced the
\* identical trend label, including the case where no timeframe was analysed.
C23_TimeframeVote ==
    (san.stage = "timeframes")
        => LET analysed == {tf \in DOMAIN san.klines_data :
                               Len(san.klines_data[tf]) >= 10}
               label(tf) == san.result.timeframes[tf].trend
               bullish == Cardinality({tf \in analysed : label(tf) = "bullish"})
               bearish == Cardinality({tf \in analysed : label(tf) = "bearish"})
           IN  /\ DOMAIN san.result.timeframes = analysed
               /\ san.result.overall_trend =
                     IF bullish > bearish THEN "bullish"
                     ELSE IF bearish > bullish THEN "bearish" ELSE "mixed"
               /\ san.result.trend_agreement =
                     (\A t1 \in analysed, t2 \in analysed : label(t1) = label(t2))

\* the deltas of the last `period` steps of the series
WindowDeltas ==
    {san.prices[i + 1] - san.prices[i] :
        i \in (Len(san.prices) - san.period)..(Len(san.prices) - 1)}

====
